---- MODULE Spec2Model ----
(***************************************************************************)
(* Battery level plugin for Domoticz (999LV/BatteryLevel), version 0.7.0   *)
(* (src/plugin.py): threshold and polling-interval loading in onStart and  *)
(* the reconciliation pass run by on_message / UpdateDevice.               *)
(*                                                                         *)
(* Python strings are modelled as sequences of one-character strings, so   *)
(* that int() and str() are computed and not assumed: "80" is <<"8","0">>  *)
(* and the empty string is <<>>.                                           *)
(***************************************************************************)
EXTENDS Integers, Sequences, FiniteSets, TLC

VARIABLES
    batterylevelfull,   \* global batterylevelfull (plugin.py:90)
    batterylevelok,     \* global batterylevelok   (plugin.py:91)
    batterylevellow,    \* global batterylevellow  (plugin.py:92)
    pollinterval,       \* self.pollinterval       (plugin.py:89)
    MQTT_OK,            \* self.MQTT_OK            (plugin.py:93)
    phase,              \* lifecycle of the plugin object: constructed / started / stopped
    Parameters,         \* the host's Parameters dictionary read by onStart
    Devices,            \* the host's Devices dictionary: Unit -> device record
    errlog,             \* Domoticz.Error messages of the last onStart, in order
    lastmsg,            \* the last reply handled by on_message on the plugin's topic
    before,             \* Devices as they were when that reply arrived
    updates,            \* Unit -> number of Devices[Unit].Update calls made for that reply
    created,            \* Units created by Domoticz.Device(...).Create() for that reply
    passlevels,         \* <<full, ok, low>> in force when that reply was handled
    repeat,             \* that reply repeated the one before it, thresholds unchanged
    now,                \* the host's clock, datetime.now(), in minutes
    nextupdate,         \* self.nextupdate (plugin.py:88), in minutes
    lastpoll,           \* when this plugin object last polled, -1 before its first poll
    beat,               \* flips at every onHeartbeat
    failed,             \* the Unit whose Update the host rejected in the last pass, 0 if none
    trace,              \* the passes since construction: reply, Updates made, Units created
    OZWCacheDir,        \* 0.5.2: self.OZWCacheDir is set
    zwaveinfofilepath,  \* 0.5.2: self.zwaveinfofilepath is set
    lastmod,            \* 0.5.2: st_mtime of the controller's cache file, in minutes
    readage,            \* 0.5.2: age of the cache file at the last poll that read it, -1 if none
    packed,             \* 0.3.2: the device ID of the last device listed by the Domoticz API
    nodeid,             \* 0.3.2: the zwave node id derived from it
    versionOK,          \* 0.6.1: self.versionOK
    inflight,           \* getNodes requests published and not answered yet
    subscribed          \* the MQTT client is subscribed to the api topic

\* the timer of onHeartbeat
timer == <<now, nextupdate, lastpoll, beat>>

\* the state of the 0.5.2 plugin and of the cache file it reads
legacy == <<OZWCacheDir, zwaveinfofilepath, lastmod, readage>>

\* the state of the versions that read the Domoticz API
former == <<packed, nodeid, versionOK>>

\* the MQTT session
link == <<inflight, subscribed>>

vars == <<batterylevelfull, batterylevelok, batterylevellow, pollinterval, MQTT_OK,
          phase, Parameters, Devices, errlog, lastmsg, before, updates, created,
          passlevels, repeat, timer, failed, trace, legacy, former, link>>

----------------------------------------------------------------------------
(* Bounds of the model.                                                    *)

MaxUnit == 2        \* node ids / device units are 1..MaxUnit
MaxLevel == 100     \* battery levels of the classification runs are 0..MaxLevel

Units == 1..MaxUnit

----------------------------------------------------------------------------
(* Program constants.                                                      *)

DefaultPollInterval == 60
DefaultFull == 75
DefaultOk == 50
DefaultLow == 25
FullMin == 75
FullMax == 99
OkMin == 40
OkMax == 75
LowMin == 10
LowMax == 25
PollMin == 30
PollMax == 1440

----------------------------------------------------------------------------
(* str() and int() on Python strings.                                      *)

Digits == <<"0", "1", "2", "3", "4", "5", "6", "7", "8", "9">>

IsDigit(c) == \E i \in 1..10 : Digits[i] = c

DigitVal(c) == (CHOOSE i \in 1..10 : Digits[i] = c) - 1

RECURSIVE StrNat(_)
StrNat(n) == IF n < 10 THEN <<Digits[n + 1]>>
             ELSE StrNat(n \div 10) \o <<Digits[(n % 10) + 1]>>

\* str(n) for an integer n
Str(n) == IF n < 0 THEN <<"-">> \o StrNat(0 - n) ELSE StrNat(n)

RECURSIVE LStrip(_)
LStrip(s) == IF s # <<>> /\ Head(s) = " " THEN LStrip(Tail(s)) ELSE s

RECURSIVE RStrip(_)
RStrip(s) == IF s # <<>> /\ s[Len(s)] = " " THEN RStrip(SubSeq(s, 1, Len(s) - 1)) ELSE s

\* the digits of an integer literal: digits, single underscores only between digits
IsLiteral(t) ==
    /\ t # <<>>
    /\ IsDigit(t[1])
    /\ IsDigit(t[Len(t)])
    /\ \A i \in 1..Len(t) :
         \/ IsDigit(t[i])
         \/ t[i] = "_" /\ i > 1 /\ i < Len(t) /\ IsDigit(t[i - 1]) /\ IsDigit(t[i + 1])

RECURSIVE LiteralVal(_, _)
LiteralVal(t, acc) ==
    IF t = <<>> THEN acc
    ELSE IF Head(t) = "_" THEN LiteralVal(Tail(t), acc)
    ELSE LiteralVal(Tail(t), 10 * acc + DigitVal(Head(t)))

\* int(s) for a string s: [ok |-> TRUE, val |-> n], or ok = FALSE for ValueError
ParseInt(s) ==
    LET t == RStrip(LStrip(s))
        signed == t # <<>> /\ Head(t) \in {"-", "+"}
        body == IF signed THEN Tail(t) ELSE t
    IN  IF IsLiteral(body)
        THEN [ok |-> TRUE,
              val |-> IF signed /\ Head(t) = "-" THEN 0 - LiteralVal(body, 0)
                      ELSE LiteralVal(body, 0)]
        ELSE [ok |-> FALSE, val |-> 0]

----------------------------------------------------------------------------
(* Construction.                                                           *)

\* the defaults of the plugin's <params> block
DefaultParameters ==
    [Mode1 |-> Str(DefaultPollInterval), Mode2 |-> Str(DefaultFull),
     Mode3 |-> Str(DefaultOk), Mode4 |-> Str(DefaultLow),
     Port |-> <<"1", "8", "8", "3">>]

NoMessage == [topic |-> "none", json |-> FALSE, success |-> FALSE, result |-> <<>>]

NoDevices == [u \in {} |-> 0]

Init ==
    /\ batterylevelfull = DefaultFull
    /\ batterylevelok = DefaultOk
    /\ batterylevellow = DefaultLow
    /\ pollinterval = DefaultPollInterval
    /\ MQTT_OK = FALSE
    /\ phase = "constructed"
    /\ Parameters = DefaultParameters
    /\ Devices = NoDevices
    /\ errlog = <<>>
    /\ lastmsg = NoMessage
    /\ before = NoDevices
    /\ updates = NoDevices
    /\ created = {}
    /\ passlevels = <<DefaultFull, DefaultOk, DefaultLow>>
    /\ repeat = FALSE
    /\ now = 0
    /\ nextupdate = 0
    /\ lastpoll = -1
    /\ beat = FALSE
    /\ failed = 0
    /\ trace = <<>>
    /\ OZWCacheDir = FALSE
    /\ zwaveinfofilepath = FALSE
    /\ lastmod = 0
    /\ readage = -1
    /\ packed = 0
    /\ nodeid = 0
    /\ versionOK = FALSE
    /\ inflight = 0
    /\ subscribed = FALSE

----------------------------------------------------------------------------
(* onStart: loading of the battery levels and of the polling interval.     *)
(* Each loader gives the value kept and the Domoticz.Error messages made.  *)

LoadFullNoUpperClamp(text, current) ==
    LET r == ParseInt(text)
    IN  IF ~r.ok THEN [value |-> current, errors |-> <<"Invalid Battery Full parameter">>]
        ELSE IF r.val < FullMin
        THEN [value |-> FullMin,
              errors |-> <<"Specified Battery Full value too low: changed to 75%">>]
        ELSE [value |-> r.val, errors |-> <<>>]

\* "Battery Full": try int(Parameters["Mode2"]) ... batterylevelfull = temp
LoadFull(text, current) ==
    LET r == ParseInt(text)
    IN  IF ~r.ok THEN [value |-> current, errors |-> <<"Invalid Battery Full parameter">>]
        ELSE IF r.val < FullMin
        THEN [value |-> FullMin,
              errors |-> <<"Specified Battery Full value too low: changed to 75%">>]
        ELSE IF r.val > FullMax
        THEN [value |-> FullMax,
              errors |-> <<"Specified Battery Full value too high: changed to 99%">>]
        ELSE [value |-> r.val, errors |-> <<>>]

LoadOkNoLowerClamp(text, current) ==
    LET r == ParseInt(text)
    IN  IF ~r.ok THEN [value |-> current, errors |-> <<"Invalid Battery OK parameter">>]
        ELSE IF r.val > OkMax
        THEN [value |-> OkMax,
              errors |-> <<"Specified Battery OK value too high: changed to 75%">>]
        ELSE [value |-> r.val, errors |-> <<>>]

LoadOkStrictlyBelowFull(text, current) ==
    LET r == ParseInt(text)
    IN  IF ~r.ok THEN [value |-> current, errors |-> <<"Invalid Battery OK parameter">>]
        ELSE IF r.val < OkMin
        THEN [value |-> OkMin,
              errors |-> <<"Specified Battery OK value too low: changed to 40%">>]
        ELSE IF r.val >= FullMin
        THEN [value |-> FullMin - 1,
              errors |-> <<"Specified Battery OK value too high: changed to 75%">>]
        ELSE [value |-> r.val, errors |-> <<>>]

\* "Battery OK": try int(Parameters["Mode3"]) ... batterylevelok = temp
LoadOk(text, current) ==
    LET r == ParseInt(text)
    IN  IF ~r.ok THEN [value |-> current, errors |-> <<"Invalid Battery OK parameter">>]
        ELSE IF r.val < OkMin
        THEN [value |-> OkMin,
              errors |-> <<"Specified Battery OK value too low: changed to 40%">>]
        ELSE IF r.val > OkMax
        THEN [value |-> OkMax,
              errors |-> <<"Specified Battery OK value too high: changed to 75%">>]
        ELSE [value |-> r.val, errors |-> <<>>]

LoadLowInvalidGivesMinimum(text, current) ==
    LET r == ParseInt(text)
    IN  IF ~r.ok THEN [value |-> LowMin, errors |-> <<"Invalid Battery LOW parameter">>]
        ELSE IF r.val < LowMin
        THEN [value |-> LowMin,
              errors |-> <<"Specified Battery LOW value too low: changed to 10%">>]
        ELSE IF r.val > LowMax
        THEN [value |-> LowMax,
              errors |-> <<"Specified Battery LOW value too high: changed to 25%">>]
        ELSE [value |-> r.val, errors |-> <<>>]

\* "Battery LOW": try int(Parameters["Mode4"]) ... batterylevellow = temp
LoadLow(text, current) ==
    LET r == ParseInt(text)
    IN  IF ~r.ok THEN [value |-> current, errors |-> <<"Invalid Battery LOW parameter">>]
        ELSE IF r.val < LowMin
        THEN [value |-> LowMin,
              errors |-> <<"Specified Battery LOW value too low: changed to 10%">>]
        ELSE IF r.val > LowMax
        THEN [value |-> LowMax,
              errors |-> <<"Specified Battery LOW value too high: changed to 25%">>]
        ELSE [value |-> r.val, errors |-> <<>>]

LoadPollIntervalNoMinimum(text, current) ==
    LET r == ParseInt(text)
    IN  IF ~r.ok THEN [value |-> current, errors |-> <<"Invalid polling interval parameter">>]
        ELSE IF r.val > PollMax
        THEN [value |-> PollMax,
              errors |-> <<"Specified polling interval too long: changed to 1440 minutes (24 hours)">>]
        ELSE [value |-> r.val, errors |-> <<>>]

\* "check polling interval parameter": try int(Parameters["Mode1"]) ... self.pollinterval = temp
LoadPollInterval(text, current) ==
    LET r == ParseInt(text)
    IN  IF ~r.ok THEN [value |-> current, errors |-> <<"Invalid polling interval parameter">>]
        ELSE IF r.val < PollMin
        THEN [value |-> PollMin,
              errors |-> <<"Specified polling interval too short: changed to 30 minutes">>]
        ELSE IF r.val > PollMax
        THEN [value |-> PollMax,
              errors |-> <<"Specified polling interval too long: changed to 1440 minutes (24 hours)">>]
        ELSE [value |-> r.val, errors |-> <<>>]

\* connect_async(Parameters["Address"], int(Parameters["Port"]), 60) inside try/except
Connect(port) ==
    IF ParseInt(port).ok THEN [ok |-> TRUE, errors |-> <<>>]
    ELSE [ok |-> FALSE, errors |-> <<"MQTT connection error">>]

\* BasePlugin.onStart with the host's Parameters equal to p
OnStart(p) ==
    LET full == LoadFull(p.Mode2, batterylevelfull)
        ok == LoadOk(p.Mode3, batterylevelok)
        low == LoadLow(p.Mode4, batterylevellow)
        poll == LoadPollInterval(p.Mode1, pollinterval)
        conn == Connect(p.Port)
    IN  /\ phase = "constructed"
        /\ Parameters' = p
        /\ batterylevelfull' = full.value
        /\ batterylevelok' = ok.value
        /\ batterylevellow' = low.value
        /\ pollinterval' = poll.value
        /\ MQTT_OK' = conn.ok
        /\ errlog' = full.errors \o ok.errors \o low.errors \o poll.errors \o conn.errors
        /\ phase' = "started"
        /\ UNCHANGED <<Devices, lastmsg, before, updates, created, passlevels, repeat,
                       timer, failed, trace, legacy, former, link>>

OnStopMarksStale ==
    /\ phase = "started"
    /\ phase' = "stopped"
    /\ Devices' = [u \in DOMAIN Devices |-> [Devices[u] EXCEPT !.TimedOut = 1]]
    /\ lastmsg' = NoMessage
    /\ before' = NoDevices
    /\ updates' = NoDevices
    /\ created' = {}
    /\ passlevels' = <<DefaultFull, DefaultOk, DefaultLow>>
    /\ repeat' = FALSE
    /\ failed' = 0
    /\ inflight' = 0
    /\ subscribed' = FALSE
    /\ UNCHANGED <<batterylevelfull, batterylevelok, batterylevellow, pollinterval, MQTT_OK,
                   Parameters, errlog, timer, trace, legacy, former>>

\* BasePlugin.onStop: the MQTT loop thread is stopped.  The record of the last reply
\* (lastmsg, before, updates, created, passlevels, repeat) starts afresh.
OnStop ==
    /\ phase = "started"
    /\ phase' = "stopped"
    /\ lastmsg' = NoMessage
    /\ before' = NoDevices
    /\ updates' = NoDevices
    /\ created' = {}
    /\ passlevels' = <<DefaultFull, DefaultOk, DefaultLow>>
    /\ repeat' = FALSE
    /\ failed' = 0
    /\ inflight' = 0
    /\ subscribed' = FALSE
    /\ UNCHANGED <<batterylevelfull, batterylevelok, batterylevellow, pollinterval, MQTT_OK,
                   Parameters, Devices, errlog, timer, trace, legacy, former>>

\* the host reloads the plugin: BasePlugin.__init__ runs again, the devices are kept
Construct ==
    /\ phase = "stopped"
    /\ phase' = "constructed"
    /\ batterylevelfull' = DefaultFull
    /\ batterylevelok' = DefaultOk
    /\ batterylevellow' = DefaultLow
    /\ pollinterval' = DefaultPollInterval
    /\ MQTT_OK' = FALSE
    /\ nextupdate' = now
    /\ lastpoll' = -1
    /\ UNCHANGED <<Parameters, Devices, errlog, lastmsg, before, updates, created,
                   passlevels, repeat, now, beat, failed, trace, legacy, former, link>>

----------------------------------------------------------------------------
(* The host's devices and images.                                          *)

\* Images[icon].ID of the four icons loaded by onStart
Images ==
    [batterylevelfull |-> 101, batterylevelok |-> 102,
     batterylevellow |-> 103, batterylevelempty |-> 104]

\* int(True) and int(False): Python compares TimedOut=True/False with the device's 0/1
BoolInt(b) == IF b THEN 1 ELSE 0

\* the device made by Domoticz.Device(Name=..., Unit=..., TypeName="Custom").Create():
\* the host enters it in Devices with no value, not timed out, and the default image
NewDevice(name) ==
    [Name |-> name, nValue |-> 0, sValue |-> <<>>, TimedOut |-> 0, Image |-> 0]

DeviceUpdateKeepsImage(dev, args) ==
    [dev EXCEPT !.nValue = args.nValue,
                !.sValue = args.sValue,
                !.TimedOut = IF "TimedOut" \in DOMAIN args THEN BoolInt(args.TimedOut) ELSE @]

\* Devices[Unit].Update(**update_args): fields not passed keep their value
DeviceUpdate(dev, args) ==
    [dev EXCEPT !.nValue = args.nValue,
                !.sValue = args.sValue,
                !.TimedOut = IF "TimedOut" \in DOMAIN args THEN BoolInt(args.TimedOut) ELSE @,
                !.Image = IF "Image" \in DOMAIN args THEN args.Image ELSE @]

----------------------------------------------------------------------------
(* UpdateDevice(Unit, **kwargs).  kwargs is a record holding the keywords  *)
(* passed; the plugin passes sValue, TimedOut and Image only, so the       *)
(* BatteryLevel and Color keywords, which no call gives, are left out.     *)

Keep(kwargs, keys) == [k \in keys |-> kwargs[k]]

UpdateArgsAlways(dev, kwargs) ==
    LET nValue == IF "nValue" \in DOMAIN kwargs THEN kwargs.nValue ELSE dev.nValue
        sValue == IF "sValue" \in DOMAIN kwargs THEN kwargs.sValue ELSE dev.sValue
    IN  [change |-> TRUE,
         args |-> [nValue |-> nValue, sValue |-> sValue]
                  @@ Keep(kwargs, DOMAIN kwargs \cap {"TimedOut", "Image"})]

UpdateArgsValueOnly(dev, kwargs) ==
    LET nValue == IF "nValue" \in DOMAIN kwargs THEN kwargs.nValue ELSE dev.nValue
        sValue == IF "sValue" \in DOMAIN kwargs THEN kwargs.sValue ELSE dev.sValue
    IN  [change |-> nValue # dev.nValue \/ sValue # dev.sValue,
         args |-> [nValue |-> nValue, sValue |-> sValue]
                  @@ Keep(kwargs, DOMAIN kwargs \cap {"TimedOut", "Image"})]

UpdateArgsNoImage(dev, kwargs) ==
    LET nValue == IF "nValue" \in DOMAIN kwargs THEN kwargs.nValue ELSE dev.nValue
        sValue == IF "sValue" \in DOMAIN kwargs THEN kwargs.sValue ELSE dev.sValue
        timedout == "TimedOut" \in DOMAIN kwargs /\ BoolInt(kwargs.TimedOut) # dev.TimedOut
        image == "Image" \in DOMAIN kwargs /\ kwargs.Image # dev.Image
    IN  [change |-> nValue # dev.nValue \/ sValue # dev.sValue \/ timedout \/ image,
         args |-> [nValue |-> nValue, sValue |-> sValue]
                  @@ Keep(kwargs, IF timedout THEN {"TimedOut"} ELSE {})]

UpdateArgsNoExisting(dev, kwargs) ==
    LET nValue == IF "nValue" \in DOMAIN kwargs THEN kwargs.nValue ELSE 0
        sValue == IF "sValue" \in DOMAIN kwargs THEN kwargs.sValue ELSE <<>>
        timedout == "TimedOut" \in DOMAIN kwargs /\ BoolInt(kwargs.TimedOut) # dev.TimedOut
        image == "Image" \in DOMAIN kwargs /\ kwargs.Image # dev.Image
        forced == "Forced" \in DOMAIN kwargs /\ kwargs.Forced
    IN  [change |-> \/ nValue # dev.nValue
                    \/ sValue # dev.sValue
                    \/ timedout
                    \/ image
                    \/ forced,
         args |-> [nValue |-> nValue, sValue |-> sValue]
                  @@ Keep(kwargs, IF timedout THEN {"TimedOut"} ELSE {})
                  @@ Keep(kwargs, IF image THEN {"Image"} ELSE {})]

\* the arguments built for Device.Update and whether a change was found
UpdateArgs(dev, kwargs) ==
    LET nValue == IF "nValue" \in DOMAIN kwargs THEN kwargs.nValue ELSE dev.nValue
        sValue == IF "sValue" \in DOMAIN kwargs THEN kwargs.sValue ELSE dev.sValue
        timedout == "TimedOut" \in DOMAIN kwargs /\ BoolInt(kwargs.TimedOut) # dev.TimedOut
        image == "Image" \in DOMAIN kwargs /\ kwargs.Image # dev.Image
        forced == "Forced" \in DOMAIN kwargs /\ kwargs.Forced
    IN  [change |-> \/ nValue # dev.nValue
                    \/ sValue # dev.sValue
                    \/ timedout
                    \/ image
                    \/ forced,
         args |-> [nValue |-> nValue, sValue |-> sValue]
                  @@ Keep(kwargs, IF timedout THEN {"TimedOut"} ELSE {})
                  @@ Keep(kwargs, IF image THEN {"Image"} ELSE {})]

\* UpdateDevice on the devices devs: the devices afterwards and the Update calls made
UpdateDevice(devs, Unit, kwargs) ==
    IF Unit \in DOMAIN devs
    THEN LET u == UpdateArgs(devs[Unit], kwargs)
         IN  IF u.change
             THEN [devs |-> [devs EXCEPT ![Unit] = DeviceUpdate(@, u.args)], calls |-> 1]
             ELSE [devs |-> devs, calls |-> 0]
    ELSE [devs |-> devs, calls |-> 0]

----------------------------------------------------------------------------
(* on_message: the reconciliation pass.                                    *)

IconStrict(levelBatt, full, ok, low) ==
    IF levelBatt > full THEN "batterylevelfull"
    ELSE IF levelBatt > ok THEN "batterylevelok"
    ELSE IF levelBatt > low THEN "batterylevellow"
    ELSE "batterylevelempty"

IconSwapped(levelBatt, full, ok, low) ==
    IF levelBatt >= full THEN "batterylevelok"
    ELSE IF levelBatt >= ok THEN "batterylevelfull"
    ELSE IF levelBatt >= low THEN "batterylevellow"
    ELSE "batterylevelempty"

\* the icon chosen for a level
Icon(levelBatt, full, ok, low) ==
    IF levelBatt >= full THEN "batterylevelfull"
    ELSE IF levelBatt >= ok THEN "batterylevelok"
    ELSE IF levelBatt >= low THEN "batterylevellow"
    ELSE "batterylevelempty"

NodeNameBare(id) == Str(id)

\* "Node {}".format(id)
NodeName(id) == <<"N", "o", "d", "e", " ">> \o Str(id)

RECURSIVE CreateDevicesAll(_, _)
CreateDevicesAll(devs, result) ==
    IF result = <<>> THEN devs
    ELSE LET node == Head(result)
         IN  IF node.id \notin DOMAIN devs
             THEN CreateDevicesAll(
                      devs @@ (node.id :> NewDevice(IF node.name # <<>> THEN node.name
                                                    ELSE NodeName(node.id))),
                      Tail(result))
             ELSE CreateDevicesAll(devs, Tail(result))

\* first loop: the devices after creating one for every battery node that has none
RECURSIVE CreateDevices(_, _)
CreateDevices(devs, result) ==
    IF result = <<>> THEN devs
    ELSE LET node == Head(result)
         IN  IF node.battery /\ node.id \notin DOMAIN devs
             THEN CreateDevices(
                      devs @@ (node.id :> NewDevice(IF node.name # <<>> THEN node.name
                                                    ELSE NodeName(node.id))),
                      Tail(result))
             ELSE CreateDevices(devs, Tail(result))

\* first loop: the BatteryNodes dictionary, BatteryNodes[id] = minBatteryLevel
RECURSIVE BatteryNodes(_, _)
BatteryNodes(nodes, result) ==
    IF result = <<>> THEN nodes
    ELSE LET node == Head(result)
         IN  IF node.battery
             THEN BatteryNodes((node.id :> node.minBatteryLevel) @@ nodes, Tail(result))
             ELSE BatteryNodes(nodes, Tail(result))

ReconcileUnitNoClear(devs, nodes, Unit, full, ok, low) ==
    IF Unit \in DOMAIN nodes
    THEN UpdateDevice(devs, Unit,
                      [sValue |-> Str(nodes[Unit]),
                       Image |-> Images[Icon(nodes[Unit], full, ok, low)]])
    ELSE UpdateDevice(devs, Unit, [TimedOut |-> TRUE])

ReconcileUnitIconOnCreate(devs, nodes, Unit, full, ok, low) ==
    IF Unit \in DOMAIN nodes
    THEN IF devs[Unit].Image = 0
         THEN UpdateDevice(devs, Unit,
                           [sValue |-> Str(nodes[Unit]), TimedOut |-> FALSE,
                            Image |-> Images[Icon(nodes[Unit], full, ok, low)]])
         ELSE UpdateDevice(devs, Unit, [sValue |-> Str(nodes[Unit]), TimedOut |-> FALSE])
    ELSE UpdateDevice(devs, Unit, [TimedOut |-> TRUE])

\* second loop, one Unit: update from the reading, or mark as timed out
ReconcileUnit(devs, nodes, Unit, full, ok, low) ==
    IF Unit \in DOMAIN nodes
    THEN UpdateDevice(devs, Unit,
                      [sValue |-> Str(nodes[Unit]), TimedOut |-> FALSE,
                       Image |-> Images[Icon(nodes[Unit], full, ok, low)]])
    ELSE UpdateDevice(devs, Unit, [TimedOut |-> TRUE])

ReconcileDropMissing(devs, r, full, ok, low) ==
    IF r.success
    THEN LET made == CreateDevices(devs, r.result)
             nodes == BatteryNodes(NoDevices, r.result)
             each == [u \in DOMAIN nodes |-> ReconcileUnit(made, nodes, u, full, ok, low)]
         IN  [devs |-> [u \in DOMAIN nodes |-> each[u].devs[u]],
              calls |-> [u \in DOMAIN nodes |-> each[u].calls]]
    ELSE LET each == [u \in DOMAIN devs |-> UpdateDevice(devs, u, [TimedOut |-> TRUE])]
         IN  [devs |-> [u \in DOMAIN devs |-> each[u].devs[u]],
              calls |-> [u \in DOMAIN devs |-> each[u].calls]]

\* the effect of a reply r on the devices devs: devices afterwards, Update calls per Unit
Reconcile(devs, r, full, ok, low) ==
    IF r.success
    THEN LET made == CreateDevices(devs, r.result)
             nodes == BatteryNodes(NoDevices, r.result)
             each == [u \in DOMAIN made |-> ReconcileUnit(made, nodes, u, full, ok, low)]
         IN  [devs |-> [u \in DOMAIN made |-> each[u].devs[u]],
              calls |-> [u \in DOMAIN made |-> each[u].calls]]
    ELSE LET each == [u \in DOMAIN devs |-> UpdateDevice(devs, u, [TimedOut |-> TRUE])]
         IN  [devs |-> [u \in DOMAIN devs |-> each[u].devs[u]],
              calls |-> [u \in DOMAIN devs |-> each[u].calls]]

\* on_message(client, userdata, msg): what it does to the plugin and to the devices
\* when every Update is accepted.  A payload json.loads rejects raises before anything
\* is done.
Handle(msg) ==
    /\ phase = "started"
    /\ MQTT_OK
    /\ IF msg.topic = "api" /\ ~msg.json
       THEN /\ lastmsg' = msg
            /\ before' = Devices
            /\ updates' = [u \in DOMAIN Devices |-> 0]
            /\ created' = {}
            /\ passlevels' = <<batterylevelfull, batterylevelok, batterylevellow>>
            /\ repeat' = FALSE
            /\ UNCHANGED Devices
       ELSE IF msg.topic = "api"
       THEN \E out \in {Reconcile(Devices, msg, batterylevelfull, batterylevelok,
                                    batterylevellow)} :
            LET levels == <<batterylevelfull, batterylevelok, batterylevellow>>
            IN  /\ Devices' = out.devs
                /\ updates' = out.calls
                /\ created' = DOMAIN out.devs \ DOMAIN Devices
                /\ before' = Devices
                /\ lastmsg' = msg
                /\ passlevels' = levels
                /\ repeat' = (msg.success /\ msg = lastmsg /\ levels = passlevels)
       ELSE UNCHANGED <<Devices, updates, created, before, lastmsg, passlevels, repeat>>
    /\ UNCHANGED <<batterylevelfull, batterylevelok, batterylevellow, pollinterval, MQTT_OK,
                   phase, Parameters, errlog>>

\* the requests still unanswered once msg has arrived
Received(msg) == IF msg.topic = "api" /\ inflight > 0 THEN inflight - 1 ELSE inflight

\* on_message(client, userdata, msg) on the MQTT loop thread
OnMessage(msg) ==
    /\ Handle(msg)
    /\ failed' = 0
    /\ inflight' = Received(msg)
    /\ UNCHANGED <<timer, trace, legacy, former, subscribed>>

----------------------------------------------------------------------------
(* The replies and parameters the specifications draw from.                *)

LevelSamples == {25, 75}

\* the name zwave-js-ui reports for a node: node 1 is unnamed
NameOf(id) == IF id = 1 THEN <<>> ELSE <<"D", "o", "o", "r">>

\* what a reply says of one node: not listed, listed without "minBatteryLevel", or a level
Readings ==
    {[kind |-> "absent", level |-> 0], [kind |-> "nobattery", level |-> 0]}
    \cup {[kind |-> "level", level |-> l] : l \in LevelSamples}

\* the getNodes result listing, by ascending id, the nodes that f does not leave out
RECURSIVE ResultOf(_, _)
ResultOf(f, id) ==
    IF id > MaxUnit THEN <<>>
    ELSE IF f[id].kind = "absent" THEN ResultOf(f, id + 1)
    ELSE IF f[id].kind = "nobattery"
    THEN <<[id |-> id, name |-> NameOf(id), battery |-> FALSE, minBatteryLevel |-> 0]>>
         \o ResultOf(f, id + 1)
    ELSE <<[id |-> id, name |-> NameOf(id), battery |-> TRUE,
            minBatteryLevel |-> f[id].level]>>
         \o ResultOf(f, id + 1)

Failure == [topic |-> "api", json |-> TRUE, success |-> FALSE, result |-> <<>>]

Messages ==
    {[topic |-> "api", json |-> TRUE, success |-> TRUE, result |-> ResultOf(f, 1)] :
        f \in [Units -> Readings]}
    \cup {Failure, [topic |-> "other", json |-> TRUE, success |-> FALSE, result |-> <<>>]}

StartSamples ==
    {DefaultParameters,
     [DefaultParameters EXCEPT !.Mode2 = <<"8", "0">>, !.Mode3 = <<"6", "0">>,
                               !.Mode4 = <<"1", "0">>]}

Start == phase = "constructed" /\ \E p \in StartSamples : OnStart(p)

Message == phase = "started" /\ \E msg \in Messages : OnMessage(msg)

Next == Start \/ Message \/ OnStop \/ Construct

Spec == Init /\ [][Next]_vars

----------------------------------------------------------------------------
(* Start-up alone, over many parameter texts.                              *)

\* texts that int() rejects
NonNumeric == {<<>>, <<"a", "b", "c">>, <<"8", "0", ".", "5">>, <<"-">>, <<"8", "_">>}

\* texts other than str(n) that int() accepts, with the value Python gives them
Spelled ==
    {[text |-> <<" ", "8", "0", " ">>, val |-> 80],
     [text |-> <<"+", "2", "0">>, val |-> 20],
     [text |-> <<"1", "_", "0", "0", "0">>, val |-> 1000]}

SpelledTexts == {sp.text : sp \in Spelled}

FullRequests == {-5, 0, 40, 74, 75, 76, 99, 100, 150}
OkRequests == {-5, 25, 39, 40, 41, 50, 75, 76, 150}
LowRequests == {-5, 9, 10, 11, 25, 26, 150}
PollRequests == {-5, 0, 29, 30, 31, 60, 1440, 1441, 20000}

Texts(requests) == {Str(n) : n \in requests} \cup SpelledTexts \cup NonNumeric

StartParameters ==
    [Mode1 : Texts(PollRequests), Mode2 : Texts(FullRequests), Mode3 : Texts(OkRequests),
     Mode4 : Texts(LowRequests), Port : {DefaultParameters.Port, <<"x">>}]

StartAny == phase = "constructed" /\ \E p \in StartParameters : OnStart(p)

SpecStart == Init /\ [][StartAny]_vars

----------------------------------------------------------------------------
(* Classification: every threshold triple onStart can leave, then one      *)
(* reply giving node 1 a level in 0..MaxLevel.                             *)

StartInRange ==
    /\ phase = "constructed"
    /\ \E f \in FullMin..FullMax, o \in OkMin..OkMax, l \in LowMin..LowMax :
         OnStart([DefaultParameters EXCEPT !.Mode2 = Str(f), !.Mode3 = Str(o),
                                           !.Mode4 = Str(l)])

OneNode(level) ==
    [topic |-> "api", json |-> TRUE, success |-> TRUE,
     result |-> <<[id |-> 1, name |-> NameOf(1), battery |-> TRUE,
                   minBatteryLevel |-> level]>>]

MessageOneNode ==
    /\ phase = "started"
    /\ lastmsg = NoMessage
    /\ \E level \in 0..MaxLevel : OnMessage(OneNode(level))

SpecBand == Init /\ [][StartInRange \/ MessageOneNode]_vars

----------------------------------------------------------------------------
(* One plugin object after another on a running clock: start-up, heartbeats, *)
(* replies about node 5, stop and reload.                                    *)

MaxTime == 150

\* minutes that pass between two callbacks
Steps == {10, 30}

\* the host's clock moves on
Tick ==
    /\ \E d \in Steps : now + d <= MaxTime /\ now' = now + d
    /\ UNCHANGED <<batterylevelfull, batterylevelok, batterylevellow, pollinterval, MQTT_OK,
                   phase, Parameters, Devices, errlog, lastmsg, before, updates, created,
                   passlevels, repeat, nextupdate, lastpoll, beat, failed, trace, legacy, former, link>>

\* unanswered requests are counted up to this many
MaxInflight == 2

\* "if now >= self.nextupdate"
DueAlways(t, next) == TRUE
Due(t, next) == t >= next

\* BasePlugin.onHeartbeat: the publish on topic + "/set" is the poll
OnHeartbeat ==
    /\ phase = "started"
    /\ beat' = ~beat
    /\ IF Due(now, nextupdate)
       THEN /\ nextupdate' = now + pollinterval
            /\ lastpoll' = IF MQTT_OK THEN now ELSE lastpoll
            /\ inflight' = IF MQTT_OK /\ inflight < MaxInflight THEN inflight + 1
                           ELSE inflight
       ELSE UNCHANGED <<nextupdate, lastpoll, inflight>>
    /\ UNCHANGED <<batterylevelfull, batterylevelok, batterylevellow, pollinterval, MQTT_OK,
                   phase, Parameters, Devices, errlog, lastmsg, before, updates, created,
                   passlevels, repeat, now, failed, trace, legacy, former, subscribed>>

\* a getNodes result that lists node 5 with a battery level
Snapshot5(level) ==
    [topic |-> "api", json |-> TRUE, success |-> TRUE,
     result |-> <<[id |-> 5, name |-> NameOf(5), battery |-> TRUE,
                   minBatteryLevel |-> level]>>]

\* a getNodes result that lists no node
Snapshot0 == [topic |-> "api", json |-> TRUE, success |-> TRUE, result |-> <<>>]

\* a payload on the api topic that json.loads rejects
Malformed == [topic |-> "api", json |-> FALSE, success |-> FALSE, result |-> <<>>]

LifeMessages == {Snapshot5(80), Snapshot5(30), Snapshot0, Failure, Malformed}

LifeSamples ==
    {DefaultParameters,
     [DefaultParameters EXCEPT !.Mode1 = <<"3", "0">>],
     [DefaultParameters EXCEPT !.Port = <<"x">>]}

StartLife == phase = "constructed" /\ \E p \in LifeSamples : OnStart(p)

\* on_connect(client, userdata, flags, rc), called by the network loop that onStart
\* launched: client.subscribe(topic)
OnConnect ==
    /\ phase = "started"
    /\ MQTT_OK
    /\ ~subscribed
    /\ subscribed' = TRUE
    /\ UNCHANGED <<batterylevelfull, batterylevelok, batterylevellow, pollinterval, MQTT_OK,
                   phase, Parameters, Devices, errlog, lastmsg, before, updates, created,
                   passlevels, repeat, timer, failed, trace, legacy, former, inflight>>

\* on_disconnect(client, userdata, rc): only logs; the subscription ends with the
\* session and on_connect renews it
OnDisconnect ==
    /\ phase = "started"
    /\ subscribed
    /\ subscribed' = FALSE
    /\ UNCHANGED <<batterylevelfull, batterylevelok, batterylevellow, pollinterval, MQTT_OK,
                   phase, Parameters, Devices, errlog, lastmsg, before, updates, created,
                   passlevels, repeat, timer, failed, trace, legacy, former, inflight>>

\* the broker delivers a message on a topic the client is subscribed to
MessageLife == phase = "started" /\ subscribed /\ \E msg \in LifeMessages : OnMessage(msg)

SpecLife ==
    Init /\ [][StartLife \/ Tick \/ OnHeartbeat \/ OnConnect \/ OnDisconnect \/ MessageLife
               \/ OnStop \/ Construct]_vars

----------------------------------------------------------------------------
(* Replies during which the host rejects one Update.                       *)

\* on_message when Devices[Unit].Update raises: UpdateDevice has no try/except, so the
\* exception ends the loop over Devices.  done holds the Units the loop had reached
\* before Unit; the order of the host's dictionary is not fixed by the plugin.
OnMessageRejected(msg, Unit, done) ==
    /\ phase = "started"
    /\ MQTT_OK
    /\ msg.topic = "api"
    /\ msg.json
    /\ \E out \in {Reconcile(Devices, msg, batterylevelfull, batterylevelok,
                             batterylevellow)} :
       LET made == IF msg.success THEN CreateDevices(Devices, msg.result) ELSE Devices
       IN  /\ Unit \in DOMAIN made
           /\ out.calls[Unit] = 1
           /\ done \subseteq DOMAIN made \ {Unit}
           /\ Devices' = [u \in DOMAIN made |-> IF u \in done THEN out.devs[u] ELSE made[u]]
           /\ updates' = [u \in DOMAIN made |-> IF u \in done THEN out.calls[u] ELSE 0]
           /\ created' = DOMAIN made \ DOMAIN Devices
    /\ before' = Devices
    /\ lastmsg' = msg
    /\ passlevels' = <<batterylevelfull, batterylevelok, batterylevellow>>
    /\ repeat' = FALSE
    /\ failed' = Unit
    /\ inflight' = Received(msg)
    /\ UNCHANGED <<batterylevelfull, batterylevelok, batterylevellow, pollinterval, MQTT_OK,
                   phase, Parameters, errlog, timer, trace, legacy, former, subscribed>>

MessageRejected ==
    /\ phase = "started"
    /\ \E msg \in Messages, Unit \in Units, done \in SUBSET Units :
         OnMessageRejected(msg, Unit, done)

SpecApply == Init /\ [][Start \/ Message \/ MessageRejected \/ OnStop \/ Construct]_vars

----------------------------------------------------------------------------
(* The first replies about node 5 after a start, each recorded with what   *)
(* its pass did.                                                           *)

MaxTrace == 4

TraceMessages == {Snapshot5(80), Snapshot5(30), Snapshot0}

\* on_message, the pass entered in trace
MessageTraced ==
    /\ phase = "started"
    /\ Len(trace) < MaxTrace
    /\ \E msg \in TraceMessages :
         /\ Handle(msg)
         /\ trace' = Append(trace, [msg |-> msg, calls |-> updates', created |-> created',
                                    devs |-> Devices'])
         /\ inflight' = Received(msg)
    /\ failed' = 0
    /\ UNCHANGED <<timer, legacy, former, subscribed>>

SpecTrace == Init /\ [][Start \/ MessageTraced]_vars

----------------------------------------------------------------------------
(* Version 0.5.2, which reads the battery levels from the cache file that   *)
(* openzwave keeps of its controller.  One controller file exists; its      *)
(* content, when read, lists node 5.                                        *)

\* "timedelta(hours=2)", in minutes
FreshWindow == 120

\* BasePlugin.onStart of 0.5.2; dir tells whether an openzwave cache directory exists
LegacyOnStart(p, dir) ==
    LET full == LoadFull(p.Mode2, batterylevelfull)
        ok == LoadOk(p.Mode3, batterylevelok)
        low == LoadLow(p.Mode4, batterylevellow)
        poll == LoadPollInterval(p.Mode1, pollinterval)
    IN  /\ phase = "constructed"
        /\ Parameters' = p
        /\ batterylevelfull' = full.value
        /\ batterylevelok' = ok.value
        /\ batterylevellow' = low.value
        /\ pollinterval' = poll.value
        /\ OZWCacheDir' = dir
        /\ errlog' = full.errors \o ok.errors \o low.errors \o poll.errors
                     \o (IF dir THEN <<>>
                         ELSE <<"Cannot locate openzwave cache ! plugin will not be functional">>)
        /\ phase' = "started"
        /\ UNCHANGED <<MQTT_OK, Devices, lastmsg, before, updates, created, passlevels,
                       repeat, timer, failed, trace, zwaveinfofilepath, lastmod, readage,
                       former, link>>

\* UpdateDevice(Unit, Percent) of 0.5.2 on the devices devs, every Update accepted
LegacyUpdateDevice(devs, Unit, Percent, full, ok, low) ==
    IF Unit \in DOMAIN devs /\ devs[Unit].sValue # Percent
    THEN [devs EXCEPT ![Unit] =
              DeviceUpdate(@, [nValue |-> 0, sValue |-> Percent,
                               Image |-> Images[Icon(ParseInt(Percent).val, full, ok, low)]])]
    ELSE devs

\* the controller file found by pollnodes is taken unless it is older than the window
Valid(mtime, t) == ~(mtime < t - FreshWindow)

\* pollnodes of 0.5.2.  parsed tells whether xml.parse succeeds; level is the battery
\* level the file gives node 5.
Pollnodes(parsed, level) ==
    IF ~OZWCacheDir
    THEN UNCHANGED <<zwaveinfofilepath, readage, Devices>>
    ELSE \E path \in {IF ~zwaveinfofilepath THEN Valid(lastmod, now) ELSE TRUE} :
         /\ zwaveinfofilepath' = path
         /\ IF path /\ parsed
            THEN /\ readage' = now - lastmod
                 /\ Devices' = LegacyUpdateDevice(
                                   IF 5 \in DOMAIN Devices THEN Devices
                                   ELSE Devices @@ (5 :> NewDevice(NameOf(5))),
                                   5, Str(level), batterylevelfull, batterylevelok,
                                   batterylevellow)
            ELSE UNCHANGED <<readage, Devices>>

\* BasePlugin.onHeartbeat of 0.5.2
LegacyOnHeartbeat(parsed, level) ==
    /\ phase = "started"
    /\ beat' = ~beat
    /\ IF Due(now, nextupdate)
       THEN /\ nextupdate' = now + pollinterval
            /\ lastpoll' = now
            /\ Pollnodes(parsed, level)
       ELSE UNCHANGED <<nextupdate, lastpoll, zwaveinfofilepath, readage, Devices>>
    /\ UNCHANGED <<batterylevelfull, batterylevelok, batterylevellow, pollinterval, MQTT_OK,
                   phase, Parameters, errlog, lastmsg, before, updates, created,
                   passlevels, repeat, now, failed, trace, OZWCacheDir, lastmod,
                   former, link>>

\* openzwave rewrites its cache file
FileTouch ==
    /\ lastmod # now
    /\ lastmod' = now
    /\ UNCHANGED <<batterylevelfull, batterylevelok, batterylevellow, pollinterval, MQTT_OK,
                   phase, Parameters, Devices, errlog, lastmsg, before, updates, created,
                   passlevels, repeat, timer, failed, trace, OZWCacheDir,
                   zwaveinfofilepath, readage, former, link>>

\* the host reloads the 0.5.2 plugin: BasePlugin.__init__ runs again
LegacyConstruct ==
    /\ phase = "stopped"
    /\ phase' = "constructed"
    /\ batterylevelfull' = DefaultFull
    /\ batterylevelok' = DefaultOk
    /\ batterylevellow' = DefaultLow
    /\ pollinterval' = DefaultPollInterval
    /\ nextupdate' = now
    /\ lastpoll' = -1
    /\ OZWCacheDir' = FALSE
    /\ zwaveinfofilepath' = FALSE
    /\ readage' = -1
    /\ UNCHANGED <<MQTT_OK, Parameters, Devices, errlog, lastmsg, before, updates, created,
                   passlevels, repeat, now, beat, failed, trace, lastmod,
                   former, link>>

LegacyStart ==
    /\ phase = "constructed"
    /\ \E p \in LifeSamples, dir \in BOOLEAN : LegacyOnStart(p, dir)

LegacyHeartbeat ==
    /\ phase = "started"
    /\ \E parsed \in BOOLEAN, level \in {80, 30} : LegacyOnHeartbeat(parsed, level)

SpecLegacy ==
    Init /\ [][LegacyStart \/ Tick \/ FileTouch \/ LegacyHeartbeat \/ OnStop
               \/ LegacyConstruct]_vars

----------------------------------------------------------------------------
(* Version 0.3.2, which listed the zwave devices through the Domoticz API   *)
(* and turned each device ID into a zwave node id.                          *)

\* bits lo .. lo + 7 of a 32-bit value
Byte(value, lo) == (value \div (2 ^ lo)) % 256

DeriveNodeIdNoFallback(id) == Byte(id, 16) * 256 + Byte(id, 8)

\* the node id of a packed device ID: (byte2 << 8) | byte1, or the ID itself when
\* that is zero
DeriveNodeId(id) ==
    LET nodeID == Byte(id, 16) * 256 + Byte(id, 8)
    IN  IF nodeID = 0 THEN id ELSE nodeID

ByteSamples == {0, 1, 18, 52, 255}

\* the top byte stays below 128: the checker's integers are signed 32-bit
TopByteSamples == {0, 1, 18, 52, 127}

\* 32-bit device IDs, each byte drawn from the samples
PackedIds ==
    {b3 * 2 ^ 24 + b2 * 2 ^ 16 + b1 * 2 ^ 8 + b0 :
        b3 \in TopByteSamples, b2 \in ByteSamples, b1 \in ByteSamples, b0 \in ByteSamples}

\* one device of the API's list is turned into its node id
DeviceListed ==
    /\ \E id \in PackedIds : packed' = id /\ nodeid' = DeriveNodeId(id)
    /\ UNCHANGED <<batterylevelfull, batterylevelok, batterylevellow, pollinterval, MQTT_OK,
                   phase, Parameters, Devices, errlog, lastmsg, before, updates, created,
                   passlevels, repeat, timer, failed, trace, legacy, versionOK, link>>

SpecNode == Init /\ [][DeviceListed]_vars

----------------------------------------------------------------------------
(* Version 0.6.1, which asks the Domoticz API for the battery levels of the *)
(* zwave nodes.  Its UpdateDevice is the one of 0.7.0, line for line, and   *)
(* the second loop of its pollnodes is the second loop of on_message.       *)

\* "not a battery device"
NoBattery == 255

MinMajor == 2020
MinMinor == 11253

\* s.split('.'): the pieces of s between the dots
RECURSIVE SplitDot(_, _)
SplitDot(s, piece) ==
    IF s = <<>> THEN <<piece>>
    ELSE IF Head(s) = "." THEN <<piece>> \o SplitDot(Tail(s), <<>>)
    ELSE SplitDot(Tail(s), Append(piece, Head(s)))

VersionCheckNoExcept(version) ==
    LET parts == SplitDot(version, <<>>)
        major == ParseInt(parts[1])
        minor == IF Len(parts) >= 2 THEN ParseInt(parts[2]) ELSE [ok |-> FALSE, val |-> 0]
    IN  IF major.ok /\ major.val < MinMajor /\ minor.ok /\ minor.val < MinMinor
        THEN [ok |-> FALSE,
              errors |-> <<"Domoticz version required by this plugin is 4.11253",
                           "Plugin is therefore disabled">>]
        ELSE [ok |-> TRUE, errors |-> <<>>]

\* the version check of onStart: the value left in self.versionOK and the errors logged
VersionCheck(version) ==
    LET parts == SplitDot(version, <<>>)
        major == ParseInt(parts[1])
        minor == IF Len(parts) >= 2 THEN ParseInt(parts[2]) ELSE [ok |-> FALSE, val |-> 0]
        failed61 == [ok |-> FALSE,
                     errors |-> <<"Domoticz version check returned an error">>]
    IN  IF ~major.ok THEN failed61
        ELSE IF major.val < MinMajor
        THEN IF ~minor.ok THEN failed61
             ELSE IF minor.val < MinMinor
             THEN [ok |-> FALSE,
                   errors |-> <<"Domoticz version required by this plugin is 4.11253",
                                "Plugin is therefore disabled">>]
             ELSE [ok |-> TRUE, errors |-> <<>>]
        ELSE [ok |-> TRUE, errors |-> <<>>]

\* BasePlugin.onStart of 0.6.1 under a host of the given version
ApiOnStart(p, version) ==
    LET check == VersionCheck(version)
        full == LoadFull(p.Mode2, batterylevelfull)
        ok == LoadOk(p.Mode3, batterylevelok)
        low == LoadLow(p.Mode4, batterylevellow)
        poll == LoadPollInterval(p.Mode1, pollinterval)
    IN  /\ phase = "constructed"
        /\ phase' = "started"
        /\ Parameters' = p @@ [DomoticzVersion |-> version]
        /\ versionOK' = check.ok
        /\ IF check.ok
           THEN /\ batterylevelfull' = full.value
                /\ batterylevelok' = ok.value
                /\ batterylevellow' = low.value
                /\ pollinterval' = poll.value
                /\ errlog' = full.errors \o ok.errors \o low.errors \o poll.errors
           ELSE /\ errlog' = check.errors
                /\ UNCHANGED <<batterylevelfull, batterylevelok, batterylevellow,
                               pollinterval>>
        /\ UNCHANGED <<MQTT_OK, Devices, lastmsg, before, updates, created, passlevels,
                       repeat, timer, failed, trace, legacy, packed, nodeid, link>>

\* first loop of pollnodes: a device for every battery node that has none
RECURSIVE ApiCreateDevices(_, _)
ApiCreateDevices(devs, nodes) ==
    IF nodes = <<>> THEN devs
    ELSE LET node == Head(nodes)
         IN  IF node.battery # NoBattery /\ node.nodeID \notin DOMAIN devs
             THEN ApiCreateDevices(
                      devs @@ (node.nodeID :> NewDevice(IF node.nodeName # <<>>
                                                        THEN node.nodeName
                                                        ELSE NodeName(node.nodeID))),
                      Tail(nodes))
             ELSE ApiCreateDevices(devs, Tail(nodes))

\* first loop of pollnodes: BatteryNodes[nodeID] = battery
ApiBatteryNodesAll(dict, nodes) ==
    [id \in {nodes[i].nodeID : i \in 1..Len(nodes)} |->
        LET last == CHOOSE i \in 1..Len(nodes) :
                        /\ nodes[i].nodeID = id
                        /\ \A j \in i + 1..Len(nodes) : nodes[j].nodeID # id
        IN  nodes[last].battery] @@ dict

RECURSIVE ApiBatteryNodes(_, _)
ApiBatteryNodes(dict, nodes) ==
    IF nodes = <<>> THEN dict
    ELSE LET node == Head(nodes)
         IN  IF node.battery # NoBattery
             THEN ApiBatteryNodes((node.nodeID :> node.battery) @@ dict, Tail(nodes))
             ELSE ApiBatteryNodes(dict, Tail(nodes))

ApiReconcileSkipOnFailure(devs, api, full, ok, low) ==
    LET nodes == IF api.ok /\ api.listed THEN api.result ELSE <<>>
        made == ApiCreateDevices(devs, nodes)
        dict == ApiBatteryNodes(NoDevices, nodes)
        each == [u \in DOMAIN made |-> ReconcileUnit(made, dict, u, full, ok, low)]
    IN  IF api.ok
        THEN [devs |-> [u \in DOMAIN made |-> each[u].devs[u]],
              calls |-> [u \in DOMAIN made |-> each[u].calls]]
        ELSE [devs |-> devs, calls |-> [u \in DOMAIN devs |-> 0]]

\* pollnodes on the devices devs, given what DomoticzAPI returned: api.ok is FALSE for
\* None (http error, exception, status other than OK) and api.result is FALSE when the
\* JSON has no "result"; both leave nodes = []
ApiReconcile(devs, api, full, ok, low) ==
    LET nodes == IF api.ok /\ api.listed THEN api.result ELSE <<>>
        made == ApiCreateDevices(devs, nodes)
        dict == ApiBatteryNodes(NoDevices, nodes)
        each == [u \in DOMAIN made |-> ReconcileUnit(made, dict, u, full, ok, low)]
    IN  [devs |-> [u \in DOMAIN made |-> each[u].devs[u]],
         calls |-> [u \in DOMAIN made |-> each[u].calls]]

\* BasePlugin.onHeartbeat of 0.6.1, api being what DomoticzAPI returns if it is called
ApiOnHeartbeat(api) ==
    /\ phase = "started"
    /\ beat' = ~beat
    /\ IF versionOK /\ Due(now, nextupdate)
       THEN \E out \in {ApiReconcile(Devices, api, batterylevelfull, batterylevelok,
                                      batterylevellow)} :
            /\ nextupdate' = now + pollinterval
            /\ lastpoll' = now
            /\ Devices' = out.devs
            /\ updates' = out.calls
            /\ created' = DOMAIN out.devs \ DOMAIN Devices
            /\ before' = Devices
            /\ lastmsg' = [topic |-> "json.htm", json |-> api.ok, success |-> api.ok,
                           result |-> IF api.ok /\ api.listed THEN api.result ELSE <<>>]
            /\ passlevels' = <<batterylevelfull, batterylevelok, batterylevellow>>
       ELSE UNCHANGED <<nextupdate, lastpoll, Devices, updates, created, before, lastmsg,
                        passlevels>>
    /\ UNCHANGED <<batterylevelfull, batterylevelok, batterylevellow, pollinterval, MQTT_OK,
                   phase, Parameters, errlog, repeat, now, failed, trace, legacy, former,
                   link>>

\* the host reloads the 0.6.1 plugin: BasePlugin.__init__ runs again
ApiConstruct ==
    /\ phase = "stopped"
    /\ phase' = "constructed"
    /\ batterylevelfull' = DefaultFull
    /\ batterylevelok' = DefaultOk
    /\ batterylevellow' = DefaultLow
    /\ pollinterval' = DefaultPollInterval
    /\ nextupdate' = now
    /\ lastpoll' = -1
    /\ versionOK' = FALSE
    /\ UNCHANGED <<MQTT_OK, Parameters, Devices, errlog, lastmsg, before, updates, created,
                   passlevels, repeat, now, beat, failed, trace, legacy, packed, nodeid,
                   link>>

\* what the API says of one node: not listed, listed with 255, listed with a level
ApiReadings == {"absent", "nobattery", "level"}

ApiNode(id, reading) ==
    IF reading = "absent" THEN <<>>
    ELSE <<[nodeID |-> id, nodeName |-> NameOf(id),
            battery |-> IF reading = "nobattery" THEN NoBattery ELSE 80]>>

\* what DomoticzAPI can return about the nodes 5 and 6
ApiReplies ==
    {[ok |-> TRUE, listed |-> TRUE, result |-> ApiNode(5, r5) \o ApiNode(6, r6)] :
        r5 \in ApiReadings, r6 \in ApiReadings}
    \cup {[ok |-> TRUE, listed |-> FALSE, result |-> <<>>],
          [ok |-> FALSE, listed |-> FALSE, result |-> <<>>]}

VersionSamples ==
    {<<"4", ".", "1", "1", "2", "5", "3">>, <<"4", ".", "1", "0", "7", "1", "7">>,
     <<"2", "0", "2", "0", ".", "2">>, <<"b", "e", "t", "a">>, <<"4">>,
     <<"2", "0", "2", "0", ".", "x">>}

\* the host's settings: the defaults, or another interval and other battery levels
ApiStartSamples ==
    {DefaultParameters,
     [DefaultParameters EXCEPT !.Mode1 = <<"3", "0">>, !.Mode2 = <<"8", "0">>,
                               !.Mode3 = <<"6", "0">>, !.Mode4 = <<"1", "0">>]}

ApiStart ==
    /\ phase = "constructed"
    /\ \E p \in ApiStartSamples, version \in VersionSamples : ApiOnStart(p, version)

ApiHeartbeat == phase = "started" /\ \E api \in ApiReplies : ApiOnHeartbeat(api)

SpecApi == Init /\ [][ApiStart \/ Tick \/ ApiHeartbeat \/ OnStop \/ ApiConstruct]_vars

----------------------------------------------------------------------------
(* Vocabulary of the properties.                                           *)

\* the band of the specification's classify, as the icon that stands for it
Classify(p, levels) ==
    IF p >= levels[1] THEN Images.batterylevelfull
    ELSE IF p >= levels[2] THEN Images.batterylevelok
    ELSE IF p >= levels[3] THEN Images.batterylevellow
    ELSE Images.batterylevelempty

\* the nodes of the last reply that carry a battery level
Read == {lastmsg.result[i] : i \in {j \in 1..Len(lastmsg.result) : lastmsg.result[j].battery}}

HasReading(u) == \E node \in Read : node.id = u

\* the last reply was a successful snapshot, handled as a reconciliation pass
Pass == lastmsg.topic = "api" /\ lastmsg.success

\* the value nearest to v in lo..hi
Clamp(v, lo, hi) == IF v < lo THEN lo ELSE IF v > hi THEN hi ELSE v

Known(requests) == {[text |-> Str(n), val |-> n] : n \in requests} \cup Spelled

Count(log, msgs) == Cardinality({i \in 1..Len(log) : log[i] \in msgs})

FullErrors ==
    {"Invalid Battery Full parameter",
     "Specified Battery Full value too low: changed to 75%",
     "Specified Battery Full value too high: changed to 99%"}

OkErrors ==
    {"Invalid Battery OK parameter",
     "Specified Battery OK value too low: changed to 40%",
     "Specified Battery OK value too high: changed to 75%"}

LowErrors ==
    {"Invalid Battery LOW parameter",
     "Specified Battery LOW value too low: changed to 10%",
     "Specified Battery LOW value too high: changed to 25%"}

PollErrors ==
    {"Invalid polling interval parameter",
     "Specified polling interval too short: changed to 30 minutes",
     "Specified polling interval too long: changed to 1440 minutes (24 hours)"}

----------------------------------------------------------------------------
(* Properties.                                                             *)

RepeatedSnapshotIsSilent ==
    repeat => /\ created = {}
              /\ \A u \in DOMAIN updates : updates[u] = 0

\* a repeated snapshot with a reading for one device and none for another
RepeatedSnapshotWitness ==
    /\ repeat
    /\ \E u \in DOMAIN Devices : HasReading(u)
    /\ \E u \in DOMAIN Devices : ~HasReading(u)

\* C3: a device missing from a successful snapshot is stale afterwards; the pass
\* issues one Update for it if it was not stale before and none if it already was.
MissingMarkedStaleOnce ==
    Pass => \A u \in DOMAIN before :
                ~HasReading(u) =>
                    /\ Devices[u].TimedOut = 1
                    /\ before[u].TimedOut = 0 => updates[u] = 1
                    /\ before[u].TimedOut = 1 => updates[u] = 0

\* a device still missing in a later pass: already stale, no Update
StillMissingWitness ==
    /\ Pass
    /\ \E u \in DOMAIN before : /\ ~HasReading(u)
                                /\ before[u].TimedOut = 1
                                /\ updates[u] = 0
                                /\ before[u].sValue # <<>>

\* C4: a stale device that has a reading again gets exactly one Update in that pass
\* and is no longer stale, also when the level is the one it had stored.
ReappearingClearsStale ==
    Pass => \A node \in Read :
                (node.id \in DOMAIN before /\ before[node.id].TimedOut = 1) =>
                    /\ updates[node.id] = 1
                    /\ Devices[node.id].TimedOut = 0

\* a stale device reappearing with the level and icon it had stored
ReappearingSameLevelWitness ==
    /\ Pass
    /\ \E node \in Read : /\ node.id \in DOMAIN before
                          /\ before[node.id].TimedOut = 1
                          /\ before[node.id].sValue = Str(node.minBatteryLevel)
                          /\ before[node.id].Image = Devices[node.id].Image
                          /\ updates[node.id] = 1

\* C5: a reading for a node without device makes the pass create the device for
\* that node id and update it: it exists, stores the reading, is not stale and
\* carries the icon of the reading's band.
NewNodeCreatedAndUpdated ==
    Pass => /\ \A node \in Read : node.id \notin DOMAIN before => node.id \in created
            /\ \A u \in created :
                 /\ u \in DOMAIN Devices
                 /\ \E node \in Read :
                      /\ node.id = u
                      /\ Devices[u].sValue = Str(node.minBatteryLevel)
                      /\ Devices[u].Image = Classify(node.minBatteryLevel, passlevels)
                 /\ Devices[u].TimedOut = 0
                 /\ updates[u] = 1

\* a device created while another one already existed
NewNodeWitness ==
    /\ Pass
    /\ created # {}
    /\ before # NoDevices

\* C6: a known, non-stale device whose reading differs from the stored value gets
\* exactly one Update; afterwards it stores the new reading and the icon of its band.
ChangedReadingUpdatesOnce ==
    Pass => \A node \in Read :
                (/\ node.id \in DOMAIN before
                 /\ before[node.id].TimedOut = 0
                 /\ before[node.id].sValue # Str(node.minBatteryLevel)) =>
                    /\ updates[node.id] = 1
                    /\ Devices[node.id].sValue = Str(node.minBatteryLevel)
                    /\ Devices[node.id].Image = Classify(node.minBatteryLevel, passlevels)

\* a known, non-stale device moving to another level and another icon
ChangedReadingWitness ==
    /\ Pass
    /\ \E node \in Read : /\ node.id \in DOMAIN before
                          /\ before[node.id].TimedOut = 0
                          /\ before[node.id].sValue # <<>>
                          /\ before[node.id].sValue # Str(node.minBatteryLevel)
                          /\ before[node.id].Image # Devices[node.id].Image

\* C7: onStart clamps each numeric request to its own range (full 75..99, ok 40..75,
\* low 10..25) whatever the other fields are, with exactly one error message for a
\* request out of range and none for a request in range.
EachLevelClampedAlone ==
    phase = "started" =>
        /\ \A r \in Known(FullRequests) :
             Parameters.Mode2 = r.text =>
                /\ batterylevelfull = Clamp(r.val, 75, 99)
                /\ Count(errlog, FullErrors) = IF r.val < 75 \/ r.val > 99 THEN 1 ELSE 0
        /\ \A r \in Known(OkRequests) :
             Parameters.Mode3 = r.text =>
                /\ batterylevelok = Clamp(r.val, 40, 75)
                /\ Count(errlog, OkErrors) = IF r.val < 40 \/ r.val > 75 THEN 1 ELSE 0
        /\ \A r \in Known(LowRequests) :
             Parameters.Mode4 = r.text =>
                /\ batterylevellow = Clamp(r.val, 10, 25)
                /\ Count(errlog, LowErrors) = IF r.val < 10 \/ r.val > 25 THEN 1 ELSE 0

\* full=150 gives 99 and one message while ok and low are clamped the other way
ClampWitness ==
    /\ phase = "started"
    /\ Parameters.Mode2 = Str(150) /\ batterylevelfull = 99
    /\ Parameters.Mode3 = Str(39) /\ batterylevelok = 40
    /\ Parameters.Mode4 = Str(11) /\ batterylevellow = 11
    /\ Count(errlog, FullErrors) = 1

\* C8: in every state 10 <= low <= 25 <= 40 <= ok <= 75 <= full <= 99.
LevelsWithinRanges ==
    /\ 10 <= batterylevellow /\ batterylevellow <= 25
    /\ 40 <= batterylevelok /\ batterylevelok <= 75
    /\ 75 <= batterylevelfull /\ batterylevelfull <= 99

\* started from one text that is no number and two requests out of range
LevelsWithinRangesWitness ==
    /\ phase = "started"
    /\ Parameters.Mode2 \in NonNumeric
    /\ Parameters.Mode3 = Str(-5)
    /\ Parameters.Mode4 = Str(150)

\* C9: a threshold text that is no number gives one error for that field alone and
\* leaves that threshold at its default (75, 50, 25); the other thresholds and the
\* polling interval are loaded from their own texts and start-up goes on to connect.
BadLevelTextFallsBackAlone ==
    phase = "started" =>
        /\ Parameters.Mode2 \in NonNumeric =>
             /\ batterylevelfull = 75
             /\ Count(errlog, FullErrors) = 1
             /\ Count(errlog, {"Invalid Battery Full parameter"}) = 1
        /\ Parameters.Mode3 \in NonNumeric =>
             /\ batterylevelok = 50
             /\ Count(errlog, OkErrors) = 1
             /\ Count(errlog, {"Invalid Battery OK parameter"}) = 1
        /\ Parameters.Mode4 \in NonNumeric =>
             /\ batterylevellow = 25
             /\ Count(errlog, LowErrors) = 1
             /\ Count(errlog, {"Invalid Battery LOW parameter"}) = 1
        /\ (\E m \in {Parameters.Mode2, Parameters.Mode3, Parameters.Mode4} :
                m \in NonNumeric) =>
             /\ \A r \in Known(FullRequests) :
                  Parameters.Mode2 = r.text =>
                     /\ batterylevelfull = Clamp(r.val, 75, 99)
                     /\ Count(errlog, {"Invalid Battery Full parameter"}) = 0
             /\ \A r \in Known(OkRequests) :
                  Parameters.Mode3 = r.text =>
                     /\ batterylevelok = Clamp(r.val, 40, 75)
                     /\ Count(errlog, {"Invalid Battery OK parameter"}) = 0
             /\ \A r \in Known(LowRequests) :
                  Parameters.Mode4 = r.text =>
                     /\ batterylevellow = Clamp(r.val, 10, 25)
                     /\ Count(errlog, {"Invalid Battery LOW parameter"}) = 0
             /\ \A r \in Known(PollRequests) :
                  Parameters.Mode1 = r.text =>
                     /\ pollinterval = Clamp(r.val, 30, 1440)
                     /\ Count(errlog, {"Invalid polling interval parameter"}) = 0
             /\ Parameters.Port = DefaultParameters.Port => MQTT_OK

\* only the low text is no number: one message in all, the rest loaded, connected
BadLevelTextWitness ==
    /\ phase = "started"
    /\ Parameters.Mode4 = <<"a", "b", "c">>
    /\ Parameters.Mode2 = Str(99) /\ batterylevelfull = 99
    /\ Parameters.Mode3 = Str(41) /\ batterylevelok = 41
    /\ Parameters.Mode1 = Str(31) /\ pollinterval = 31
    /\ batterylevellow = 25
    /\ errlog = <<"Invalid Battery LOW parameter">>
    /\ MQTT_OK

\* C10: after onStart the polling interval is within 30..1440: a numeric request is
\* clamped to that range, a text that is no number leaves 60; each correction is
\* reported by one message and start-up goes on to connect.
PollIntervalClamped ==
    phase = "started" =>
        /\ 30 <= pollinterval /\ pollinterval <= 1440
        /\ \A r \in Known(PollRequests) :
             Parameters.Mode1 = r.text =>
                /\ pollinterval = Clamp(r.val, 30, 1440)
                /\ Count(errlog, PollErrors) = IF r.val < 30 \/ r.val > 1440 THEN 1 ELSE 0
        /\ Parameters.Mode1 \in NonNumeric =>
             /\ pollinterval = 60
             /\ Count(errlog, PollErrors) = 1
        /\ Parameters.Port = DefaultParameters.Port => MQTT_OK

\* an interval of 29 minutes raised to 30 with one message, and connected
PollIntervalWitness ==
    /\ phase = "started"
    /\ Parameters.Mode1 = Str(29)
    /\ pollinterval = 30
    /\ Count(errlog, PollErrors) = 1
    /\ MQTT_OK

----------------------------------------------------------------------------
(* The heartbeat timer.                                                    *)

\* C11: a heartbeat polls only when the time it reads has reached nextupdate, and
\* every due heartbeat sets nextupdate to that time plus pollinterval; two polls of
\* one plugin object are at least pollinterval minutes apart; a heartbeat before
\* nextupdate polls nothing and leaves the plugin and the devices as they were.
HeartbeatPollsWhenDue ==
    [][/\ lastpoll' # lastpoll /\ lastpoll' # -1 =>
            /\ now >= nextupdate
            /\ lastpoll' = now
            /\ lastpoll # -1 => now - lastpoll >= pollinterval
       /\ beat' # beat /\ now >= nextupdate => nextupdate' = now + pollinterval
       /\ beat' # beat /\ now < nextupdate =>
            UNCHANGED <<batterylevelfull, batterylevelok, batterylevellow, pollinterval,
                        MQTT_OK, phase, Parameters, Devices, errlog, nextupdate, lastpoll>>
      ]_vars

\* a second poll has been made, and a heartbeat has come before the next one is due
SecondPollWitness ==
    /\ lastpoll >= PollMin
    /\ nextupdate = lastpoll + pollinterval
    /\ now < nextupdate
    /\ now > lastpoll
    /\ beat

----------------------------------------------------------------------------
(* Fetch errors.                                                           *)

\* C12: after a reply on the api topic that is not a snapshot (a payload that is not
\* JSON, or a reply whose success is false) every existing device is marked stale.
FetchErrorMarksAllStale ==
    lastmsg.topic = "api" /\ ~(lastmsg.json /\ lastmsg.success) =>
        \A u \in DOMAIN Devices : Devices[u].TimedOut = 1

\* a payload that is not JSON has arrived while a device was fresh, and left it fresh
MalformedLeavesFreshWitness ==
    /\ lastmsg = Malformed
    /\ \E u \in DOMAIN Devices : Devices[u].TimedOut = 0 /\ before[u].TimedOut = 0

----------------------------------------------------------------------------
(* Apply errors.                                                           *)

\* C13: when the host rejects the Update of one device during a pass, every other
\* device ends the pass as it would have without the rejection.
RejectedUpdateSkipsOneNode ==
    failed # 0 =>
        \A u \in DOMAIN Devices \ {failed} :
            Devices[u] = Reconcile(before, lastmsg, passlevels[1], passlevels[2],
                                   passlevels[3]).devs[u]

\* the Update of unit 1 was rejected and unit 2, whose node was missing from the reply,
\* was left unmarked
RejectedUpdateWitness ==
    /\ failed = 1
    /\ 2 \in DOMAIN Devices
    /\ Pass
    /\ ~HasReading(2)
    /\ Devices[2].TimedOut = 0

----------------------------------------------------------------------------
(* The end-to-end scenario.                                                *)

Scenario == <<Snapshot5(80), Snapshot5(80), Snapshot0, Snapshot5(30)>>

ScenarioRan ==
    /\ <<batterylevelfull, batterylevelok, batterylevellow>>
           = <<DefaultFull, DefaultOk, DefaultLow>>
    /\ Len(trace) >= Len(Scenario)
    /\ \A i \in 1..Len(Scenario) : trace[i].msg = Scenario[i]

\* C14: with thresholds 75/50/25 and no devices, the replies {5: 80}, {5: 80}, {},
\* {5: 30} give: device 5 created and updated once to "80" with the full icon; no
\* Update; one Update that only marks device 5 timed out; one Update to "30" with the
\* low icon that clears the timed out flag.
ScenarioOutcome ==
    ScenarioRan =>
        /\ trace[1].created = {5}
        /\ trace[1].calls[5] = 1
        /\ trace[1].devs[5] = [Name |-> NameOf(5), nValue |-> 0, sValue |-> Str(80),
                               TimedOut |-> 0, Image |-> Images.batterylevelfull]
        /\ trace[2].created = {}
        /\ trace[2].calls[5] = 0
        /\ trace[2].devs = trace[1].devs
        /\ trace[3].created = {}
        /\ trace[3].calls[5] = 1
        /\ trace[3].devs[5] = [trace[2].devs[5] EXCEPT !.TimedOut = 1]
        /\ trace[4].created = {}
        /\ trace[4].calls[5] = 1
        /\ trace[4].devs[5] = [Name |-> NameOf(5), nValue |-> 0, sValue |-> Str(30),
                               TimedOut |-> 0, Image |-> Images.batterylevellow]
        /\ \A i \in 1..Len(Scenario) : DOMAIN trace[i].devs = {5}

\* the four replies of the scenario have been handled
ScenarioWitness == ScenarioRan /\ Devices = trace[Len(Scenario)].devs

----------------------------------------------------------------------------
(* Classification is total and monotone.                                   *)

\* the bands from the most to the least severe, by the icon that stands for each
Severity ==
    (Images.batterylevelempty :> 0) @@ (Images.batterylevellow :> 1)
    @@ (Images.batterylevelok :> 2) @@ (Images.batterylevelfull :> 3)

\* the level of the one node of the last reply
OneLevel == lastmsg.result[1].minBatteryLevel

\* the icon a level one higher than OneLevel gets under the thresholds of the last pass
IconAbove == Images[Icon(OneLevel + 1, passlevels[1], passlevels[2], passlevels[3])]

\* C15: for thresholds within their ranges and a level p in 0..MaxLevel, the device
\* gets the icon of exactly one of the four bands, and the band of p + 1 is not below it.
BandTotalAndMonotone ==
    Pass /\ 1 \in DOMAIN Devices =>
        /\ Devices[1].Image \in DOMAIN Severity
        /\ Severity[IconAbove] >= Severity[Devices[1].Image]

\* ok equals full: one more percent takes the node from the low band to the full band
BandJumpWitness ==
    /\ Pass
    /\ 1 \in DOMAIN Devices
    /\ passlevels[1] = passlevels[2]
    /\ OneLevel = passlevels[2] - 1
    /\ Devices[1].Image = Images.batterylevellow
    /\ IconAbove = Images.batterylevelfull

----------------------------------------------------------------------------
(* Devices are never removed.                                              *)

\* C16: no step of the plugin (onStart, onHeartbeat, a reply of any kind, onStop, a
\* reload) removes a Unit from Devices.
DevicesOnlyGrow == [][DOMAIN Devices \subseteq DOMAIN Devices']_vars

\* node 5 was missing from two snapshots in a row and its device is still there,
\* timed out
LongMissingWitness ==
    /\ lastmsg = Snapshot0
    /\ 5 \in DOMAIN before
    /\ before[5].TimedOut = 1
    /\ 5 \in DOMAIN Devices
    /\ Devices[5] = before[5]

----------------------------------------------------------------------------
(* The name of a created device.                                           *)

----------------------------------------------------------------------------
(* The boundary between low and empty.                                     *)

\* C18: after a pass, a device whose node reported a level less than or equal to the
\* low threshold carries the empty icon.
LowOrBelowIsEmpty ==
    Pass =>
        \A node \in Read :
            node.minBatteryLevel <= passlevels[3] =>
                Devices[node.id].Image = Images.batterylevelempty

\* a node reported exactly the low threshold and its device was given the low icon
AtLowThresholdWitness ==
    /\ Pass
    /\ \E node \in Read :
         /\ node.minBatteryLevel = passlevels[3]
         /\ updates[node.id] = 1
         /\ Devices[node.id].Image = Images.batterylevellow

----------------------------------------------------------------------------
(* Freshness of the controller file in 0.5.2.                              *)

\* C19: no poll of 0.5.2 reads node data from a controller file last modified more
\* than two hours before the poll.
PollReadsFreshFileOnly == readage <= FreshWindow

\* a poll has read the controller file more than two hours after its last change
StaleFileReadWitness ==
    /\ zwaveinfofilepath
    /\ lastpoll = now
    /\ readage = now - lastmod
    /\ readage > FreshWindow

----------------------------------------------------------------------------
(* No ordering between the thresholds is enforced.                         *)

\* onStart was given these three requests as decimal texts
Requested(full, ok, low) ==
    /\ phase = "started"
    /\ Parameters.Mode2 = Str(full)
    /\ Parameters.Mode3 = Str(ok)
    /\ Parameters.Mode4 = Str(low)

LevelErrors == FullErrors \cup OkErrors \cup LowErrors

\* C20 as stated: the requests full = 75, ok = 25, low = 25 are accepted silently: no
\* error is logged and the thresholds are 75, 25, 25.
EqualLowOkAcceptedSilently ==
    Requested(75, 25, 25) =>
        /\ Count(errlog, LevelErrors) = 0
        /\ <<batterylevelfull, batterylevelok, batterylevellow>> = <<75, 25, 25>>

\* C20 amended: no order between the thresholds is enforced, each request is held
\* against its own range only.  Requests within their ranges are accepted silently
\* whatever their order, ok = full = 75 included; the requests full = 75, ok = 25,
\* low = 25 are not, since 25 is below the range of ok: ok becomes 40 with one error.
OnlyOwnRangeEnforced ==
    /\ phase = "started" =>
         \A f \in {n \in FullMin..FullMax : n \in FullRequests /\ Parameters.Mode2 = Str(n)},
            o \in {n \in OkMin..OkMax : n \in OkRequests /\ Parameters.Mode3 = Str(n)},
            l \in {n \in LowMin..LowMax : n \in LowRequests /\ Parameters.Mode4 = Str(n)} :
              /\ Count(errlog, LevelErrors) = 0
              /\ <<batterylevelfull, batterylevelok, batterylevellow>> = <<f, o, l>>
    /\ Requested(75, 25, 25) =>
         /\ <<batterylevelfull, batterylevelok, batterylevellow>> = <<75, 40, 25>>
         /\ Count(errlog, OkErrors) = 1
         /\ Count(errlog, LevelErrors) = 1

\* started with ok equal to full, nothing logged about the levels
EqualOkFullWitness ==
    /\ Requested(75, 75, 25)
    /\ batterylevelok = batterylevelfull
    /\ Count(errlog, LevelErrors) = 0

\* started with ok requested as 25, ok raised to 40
OkRequestBelowRangeWitness ==
    /\ Requested(75, 25, 25)
    /\ batterylevelok = OkMin

----------------------------------------------------------------------------
(* The node id of a packed device ID.                                      *)

\* C21: the node id of a 32-bit device ID is bits 8 to 23 of the ID read as one
\* number, byte2 above byte1, and the whole ID when those bits are all zero;
\* 0x00120034 gives 0x1200 and 0x000000FF gives 0x000000FF.
NodeIdFromMiddleBytes ==
    LET middle == (packed \div 256) % 65536
    IN  /\ middle # 0 => nodeid = middle /\ nodeid \div 256 = (packed \div 65536) % 256
                                          /\ nodeid % 256 = (packed \div 256) % 256
        /\ middle = 0 => nodeid = packed
        /\ packed = 1179700 => nodeid = 4608
        /\ packed = 255 => nodeid = 255

\* the ID 0x00120034 has been turned into node id 0x1200
NodeIdWitness == packed = 1179700 /\ nodeid = 4608

\* an ID whose middle bytes are zero has been kept whole
NodeIdFallbackWitness == packed = 255 /\ nodeid = 255

----------------------------------------------------------------------------
(* Requests in flight.                                                     *)

\* C22: at most one getNodes request is unanswered at any time: onHeartbeat publishes
\* no request while the reply to the one before has not been handled by on_message.
NoOverlappingPolls == inflight <= 1

\* a heartbeat has just published a second request, the first one still unanswered
OverlappingPollsWitness ==
    /\ inflight = MaxInflight
    /\ lastpoll = now
    /\ lastpoll >= PollMin

----------------------------------------------------------------------------
(* Who writes the devices.                                                 *)

\* C23: onStart, onHeartbeat, on_connect, on_disconnect and onStop leave every
\* device as it was; only a step of on_message changes Devices.
OnlyOnMessageWritesDevices ==
    [][/\ (StartLife \/ OnHeartbeat \/ OnConnect \/ OnDisconnect \/ OnStop)
             => UNCHANGED Devices
       /\ Devices' # Devices => MessageLife
      ]_vars

\* the plugin has polled and was stopped while device 5 was fresh
StoppedWithFreshDeviceWitness ==
    /\ phase = "stopped"
    /\ 5 \in DOMAIN Devices
    /\ Devices[5].TimedOut = 0
    /\ Devices[5].sValue # <<>>
    /\ lastpoll >= PollMin

----------------------------------------------------------------------------
(* What counts as unchanged.                                               *)

\* C24 as stated: a device that is not stale and stores the percentage of the new
\* reading gets no Update, whatever icon it carries.
SamePercentageNoUpdate ==
    Pass =>
        \A node \in Read :
            (/\ node.id \in DOMAIN before
             /\ before[node.id].TimedOut = 0
             /\ before[node.id].sValue = Str(node.minBatteryLevel)) =>
                updates[node.id] = 0

\* C24 amended: a device that is not stale and stores the percentage of the new
\* reading gets no Update if it also carries the icon of the reading's band under the
\* current thresholds; if it carries another icon it gets one Update, which leaves it
\* with the icon of that band and the same percentage.
SamePercentageUpdatesIconOnly ==
    Pass =>
        \A node \in Read :
            (/\ node.id \in DOMAIN before
             /\ before[node.id].TimedOut = 0
             /\ before[node.id].sValue = Str(node.minBatteryLevel)) =>
                LET band == Classify(node.minBatteryLevel, passlevels)
                IN  /\ before[node.id].Image = band => updates[node.id] = 0
                    /\ before[node.id].Image # band =>
                          /\ updates[node.id] = 1
                          /\ Devices[node.id] = [before[node.id] EXCEPT !.Image = band]

\* after a restart with other thresholds, a fresh device with the same percentage was
\* given the icon of another band
SamePercentageNewIconWitness ==
    /\ Pass
    /\ \E node \in Read :
         /\ node.id \in DOMAIN before
         /\ before[node.id].TimedOut = 0
         /\ before[node.id].sValue = Str(node.minBatteryLevel)
         /\ before[node.id].Image = Images.batterylevelfull
         /\ Devices[node.id].Image = Images.batterylevelok
         /\ updates[node.id] = 1

----------------------------------------------------------------------------
(* Polling goes on after a failure.                                        *)

\* C25: whatever failed before, a heartbeat of the started plugin that finds the poll
\* due issues a poll request: whenever a heartbeat has just moved nextupdate to
\* now + pollinterval, a request was published at that time.
DueHeartbeatIssuesPoll ==
    phase = "started" /\ nextupdate = now + pollinterval => lastpoll = now

\* the connection failed at start-up and a due heartbeat, half an hour or more later,
\* has published nothing
NeverPollsWitness ==
    /\ phase = "started"
    /\ ~MQTT_OK
    /\ "MQTT connection error" \in {errlog[i] : i \in 1..Len(errlog)}
    /\ now >= PollMin
    /\ nextupdate = now + pollinterval
    /\ lastpoll = -1

----------------------------------------------------------------------------
(* Version 0.6.1: the value 255 and the failed API call.                   *)

\* the last poll of 0.6.1 got a list of nodes from the API
ApiPass == lastmsg.topic = "json.htm" /\ lastmsg.success

\* the last poll of 0.6.1 got nothing from the API
ApiFailed == lastmsg.topic = "json.htm" /\ ~lastmsg.success

\* the device is as before the poll, but timed out, at the cost of one Update if it
\* was not timed out already
MarkedStale(u) ==
    /\ u \in DOMAIN Devices
    /\ Devices[u] = [before[u] EXCEPT !.TimedOut = 1]
    /\ updates[u] = IF before[u].TimedOut = 0 THEN 1 ELSE 0

\* C26: a node listed with battery 255 gets no device if it has none, and a device it
\* already has is marked timed out as for a node that is not listed; no device ever
\* stores "255".
NoBatteryIsNoReading ==
    /\ ApiPass =>
         \A i \in 1..Len(lastmsg.result) :
             LET node == lastmsg.result[i]
             IN  node.battery = NoBattery =>
                     IF node.nodeID \in DOMAIN before THEN MarkedStale(node.nodeID)
                     ELSE node.nodeID \notin DOMAIN Devices
    /\ \A u \in DOMAIN Devices : Devices[u].sValue # Str(NoBattery)

\* node 5 had a fresh device and was listed with 255; node 6, listed with 255 too, has
\* no device
NoBatteryWitness ==
    /\ ApiPass
    /\ Len(lastmsg.result) = 2
    /\ \A i \in 1..2 : lastmsg.result[i].battery = NoBattery
    /\ 5 \in DOMAIN before
    /\ before[5].TimedOut = 0
    /\ Devices[5].TimedOut = 1
    /\ 6 \notin DOMAIN Devices

\* C27: a poll whose API call failed creates no device and leaves every device as it
\* was but timed out: one Update for a device that was not timed out, none for one
\* that was.
FailedApiCallMarksAllStale ==
    ApiFailed =>
        /\ created = {}
        /\ DOMAIN Devices = DOMAIN before
        /\ \A u \in DOMAIN before : MarkedStale(u)

\* the API call failed while one device was fresh and another already timed out
FailedApiCallWitness ==
    /\ ApiFailed
    /\ DOMAIN before = {5, 6}
    /\ before[5].TimedOut = 0 /\ updates[5] = 1
    /\ before[6].TimedOut = 1 /\ updates[6] = 0

----------------------------------------------------------------------------
(* The band does not depend on the past.                                   *)

\* C28: two devices given the same reading carry the same icon afterwards, be it in
\* one pass or in two passes that follow each other under the same thresholds,
\* whatever value, icon and timed out flag each had before and whether it existed
\* at all.
SameReadingSameBand ==
    [][Pass' =>
          /\ \A n1 \in Read', n2 \in Read' :
                n1.minBatteryLevel = n2.minBatteryLevel =>
                    Devices'[n1.id].Image = Devices'[n2.id].Image
          /\ Pass /\ passlevels' = passlevels =>
                \A n1 \in Read, n2 \in Read' :
                    n1.minBatteryLevel = n2.minBatteryLevel =>
                        Devices[n1.id].Image = Devices'[n2.id].Image
      ]_vars

\* two devices with different pasts, one timed out and one fresh with another value
\* and icon, were given the same reading and carry the same icon
DifferentPastsWitness ==
    /\ Pass
    /\ DOMAIN before = {1, 2}
    /\ before[1].TimedOut = 1
    /\ before[2].TimedOut = 0
    /\ before[1].Image # before[2].Image
    /\ before[1].sValue # before[2].sValue
    /\ HasReading(1) /\ HasReading(2)
    /\ Devices[1].sValue = Devices[2].sValue
    /\ Devices[1].Image = Devices[2].Image

----------------------------------------------------------------------------
(* What a pass leaves behind.                                              *)

\* C29: after a pass over a successful reply every device whose node is in the reply
\* with level L stores str(L) and is not timed out, and every other device is timed
\* out and stores the value it stored before the pass.
PassPostcondition ==
    Pass =>
        \A u \in DOMAIN Devices :
            IF HasReading(u)
            THEN \A node \in Read :
                     node.id = u => /\ Devices[u].sValue = Str(node.minBatteryLevel)
                                    /\ Devices[u].TimedOut = 0
            ELSE /\ Devices[u].TimedOut = 1
                 /\ u \in DOMAIN before
                 /\ Devices[u].sValue = before[u].sValue

\* a pass with a reading for one device, stale before, and none for the other, fresh
\* before
PassBothWaysWitness ==
    /\ Pass
    /\ \E u \in DOMAIN before, v \in DOMAIN before :
         /\ HasReading(u) /\ before[u].TimedOut = 1 /\ Devices[u].TimedOut = 0
         /\ ~HasReading(v) /\ before[v].TimedOut = 0 /\ Devices[v].TimedOut = 1
         /\ Devices[v].sValue # <<>>

----------------------------------------------------------------------------
(* Marking a device stale.                                                 *)

\* the devices the last reply had no reading for: all of them after a failure reply
Unread ==
    IF lastmsg.topic = "api" /\ lastmsg.json
    THEN {u \in DOMAIN before : ~lastmsg.success \/ ~HasReading(u)}
    ELSE {}

\* C30: for a device without reading, UpdateDevice(Unit, TimedOut=True) passes Update
\* the nValue and sValue the device has and no Image, with TimedOut only if the device
\* was not timed out; afterwards the device differs from before in its timed out flag
\* at most, however many replies in a row leave it out.
MarkStaleKeepsValueAndIcon ==
    \A u \in Unread :
        LET call == UpdateArgs(before[u], [TimedOut |-> TRUE])
        IN  /\ call.args.nValue = before[u].nValue
            /\ call.args.sValue = before[u].sValue
            /\ "Image" \notin DOMAIN call.args
            /\ DOMAIN call.args \subseteq {"nValue", "sValue", "TimedOut"}
            /\ call.change = (before[u].TimedOut = 0)
            /\ updates[u] = IF call.change THEN 1 ELSE 0
            /\ Devices[u] = [before[u] EXCEPT !.TimedOut = 1]

\* a device with a stored percentage and an icon, already timed out, was left out
\* again and still has both
StaleKeepsValueWitness ==
    \E u \in Unread :
        /\ before[u].TimedOut = 1
        /\ Devices[u].sValue = Str(75)
        /\ Devices[u].Image = Images.batterylevelfull

----------------------------------------------------------------------------
(* The stored percentage and the icon, under settings that stay as they    *)
(* are once there are devices.                                             *)

\* the host starts the plugin; its settings are edited only while it has no device
StartSettled ==
    /\ phase = "constructed"
    /\ \E p \in StartSamples : (Devices = NoDevices \/ p = Parameters) /\ OnStart(p)

SpecSettled == Init /\ [][StartSettled \/ Message \/ OnStop \/ Construct]_vars

\* the thresholds onStart takes from the host's Parameters
Settled ==
    <<LoadFull(Parameters.Mode2, DefaultFull).value,
      LoadOk(Parameters.Mode3, DefaultOk).value,
      LoadLow(Parameters.Mode4, DefaultLow).value>>

\* C31: from no devices on and with the thresholds never changed while there are
\* devices, every device that stores a percentage, timed out or not, carries the icon
\* of the band of that percentage under the thresholds, in every state.
StoredPercentageHasItsBandIcon ==
    \A u \in DOMAIN Devices :
        Devices[u].sValue # <<>> =>
            /\ ParseInt(Devices[u].sValue).ok
            /\ Devices[u].Image = Classify(ParseInt(Devices[u].sValue).val, Settled)

\* under thresholds other than the defaults a pass left one device, which stores a
\* percentage, timed out and gave another a percentage of another band than it had
StaleAndMovedWitness ==
    /\ Pass
    /\ Settled # <<DefaultFull, DefaultOk, DefaultLow>>
    /\ \E u \in DOMAIN before, v \in DOMAIN before :
         /\ ~HasReading(u) /\ Devices[u].TimedOut = 1 /\ Devices[u].sValue # <<>>
         /\ HasReading(v) /\ before[v].sValue # <<>>
         /\ before[v].Image # Devices[v].Image

----------------------------------------------------------------------------
(* The 0.6.1 plugin under a host its version check turns down.             *)

\* the version check fails on version: the piece before the first dot is no integer,
\* or it is below 2020 and the piece after that dot is missing, no integer or below
\* 11253
CheckFails(version) ==
    LET parts == SplitDot(version, <<>>)
        major == ParseInt(parts[1])
    IN  \/ ~major.ok
        \/ /\ major.val < MinMajor
           /\ \/ Len(parts) < 2
              \/ ~ParseInt(parts[2]).ok
              \/ ParseInt(parts[2]).val < MinMinor

\* C32: when onStart of 0.6.1 has run under a version that fails the check, the
\* battery levels and the polling interval are the defaults whatever the settings
\* ask for, and no step of the started plugin, heartbeats included and however late,
\* polls the API, moves the time of the next poll or creates or updates a device.
DisabledByVersionCheck ==
    [][phase' = "started" /\ CheckFails(Parameters'.DomoticzVersion) =>
          /\ ~versionOK'
          /\ batterylevelfull' = DefaultFull
          /\ batterylevelok' = DefaultOk
          /\ batterylevellow' = DefaultLow
          /\ pollinterval' = DefaultPollInterval
          /\ phase = "started" =>
                UNCHANGED <<Devices, lastpoll, nextupdate, lastmsg, updates, created>>
      ]_vars

\* the settings ask for other battery levels and another interval, the version is
\* turned down, a poll is long overdue, and the devices of an earlier life under a
\* good version are as that life left them, not timed out and never polled since
DisabledWitness ==
    /\ phase = "started"
    /\ CheckFails(Parameters.DomoticzVersion)
    /\ Parameters.Mode2 = <<"8", "0">> /\ Parameters.Mode1 = <<"3", "0">>
    /\ batterylevelfull = DefaultFull /\ pollinterval = DefaultPollInterval
    /\ now >= nextupdate + 60
    /\ lastpoll = -1
    /\ beat
    /\ \E u \in DOMAIN Devices : Devices[u].TimedOut = 0 /\ Devices[u].sValue # <<>>

====
